---------------------------- MODULE Spec2Model ----------------------------
(***************************************************************************)
(* Model of the LSAT reasoning-map pipeline (reasoning_parser.py, main.py, *)
(* llm_client.py, analyze_results.py).                                     *)
(*                                                                         *)
(* A text is a sequence of tokens.  Each token stands for a piece of text  *)
(* whose behaviour under the program's three regular expressions and its   *)
(* substring tests is fixed:                                               *)
(*   "NUM"    a run of digits followed by a dot, such as "1."              *)
(*   "NL"     a newline                                                    *)
(*   "COLON"  a colon                                                      *)
(*   "W"      lower-case words holding no digit, colon or newline          *)
(*   "ANS"    the words "the answer is" (lower case, like "W" to the code) *)
(*   "A".."E" one capital letter standing alone, possibly as "(B)" or "B." *)
(*   "Error"  a word holding the substring "Error"                         *)
(*   a canonical stage name: that heading's words, in any letter case      *)
(* Tokens are separated by blanks, so a letter token is word-bounded.      *)
(***************************************************************************)
EXTENDS Integers, Sequences, FiniteSets

VARIABLES
    map,          \* the ReasoningMap object of the session specification
    last,         \* the method of map called last
    printed,      \* the diagnostic that call printed ("": none)
    dataset,      \* the train split load_dataset finds (ok: whether it loads)
    shown,        \* what fetch_lsat_data printed
    mainpc,       \* position of main()
    lsat_data,    \* the problems main() holds
    api_key,      \* whether LLM_KEY is set
    pc,           \* position of each process_problem task
    outcome,      \* what the text-generation exchange did for each task
    maps,         \* the ReasoningMap each task built (NoMap: none)
    results,      \* the record each task returned (NoResult: none)
    render,       \* what became of each task's call of visualize
    response,     \* the text get_llm_reasoning returned to each task
    finished,     \* the tasks that returned or raised, in that order
    csv,          \* results.csv (NoFile: not written)
    report        \* what analyze_results printed (NoReport: not run)

vars == <<map, last, printed, dataset, shown, mainpc, lsat_data, api_key, pc, outcome, maps, results, render, response, finished, csv, report>>

sessionVars == <<map, last, printed>>
batchVars == <<dataset, shown, mainpc, lsat_data, api_key, pc, outcome, maps, results, render, response, finished, csv, report>>

----------------------------------------------------------------------------
(* Bounds *)

MaxBody == 3
NumProblems == 2
MaxRows == 3

----------------------------------------------------------------------------
(* Text *)

Letters == {"A", "B", "C", "D", "E"}

std_steps == <<"Argument Breakdown", "Question Analysis", "Strategic Evaluation", "Final Conclusion">>

Labels == 0 .. 4

None == -1

Range(s) == {s[i] : i \in 1 .. Len(s)}

\* ord(letter) - ord('A')
LetterIndex(letter) ==
    CASE letter = "A" -> 0
      [] letter = "B" -> 1
      [] letter = "C" -> 2
      [] letter = "D" -> 3
      [] letter = "E" -> 4

\* chr(index + ord('A'))
IndexLetter(index) == CHOOSE l \in Letters : LetterIndex(l) = index

\* str.strip(): leading and trailing whitespace removed
RECURSIVE Strip(_)
Strip(s) ==
    IF s = <<>> THEN <<>>
    ELSE IF Head(s) = "NL" THEN Strip(Tail(s))
    ELSE IF s[Len(s)] = "NL" THEN Strip(SubSeq(s, 1, Len(s) - 1))
    ELSE s

Least(S) == CHOOSE x \in S : \A y \in S : x <= y

\* "[^:]+:" the title runs to the first colon after position i (0: no colon)
FirstColon(text, i) ==
    LET cs == {c \in (i + 1) .. Len(text) : text[c] = "COLON"}
    IN  IF cs = {} THEN 0 ELSE Least(cs)

\* "(\d+)\.?\s*\**([^:]+):" the leftmost position >= from where a match can
\* start: digits with a colon somewhere after them (0: no further match).
\* The title between them may hold anything but a colon, newlines, digits and
\* further headings included; when nothing but the dot and blanks separates
\* the digits from the colon, these become the title by backtracking.
MatchStart(text, from) ==
    LET is == {i \in from .. Len(text) : text[i] = "NUM" /\ FirstColon(text, i) # 0}
    IN  IF is = {} THEN 0 ELSE Least(is)

\* ":\**\s*" the greedy whitespace after the colon takes every newline
SkipWs(text, s) ==
    Least({j \in s .. (Len(text) + 1) : j = Len(text) + 1 \/ text[j] # "NL"})

\* "(.*?)(?=\n\d+\.?\s*\**|\Z)" the lazy content ends before the first
\* newline that is directly followed by digits, or at the end of the text
ContentEnd(text, s) ==
    Least({j \in s .. (Len(text) + 1) :
             \/ j = Len(text) + 1
             \/ (j < Len(text) /\ text[j] = "NL" /\ text[j + 1] = "NUM")})

\* pattern.finditer(self.raw_text): the non-overlapping matches, left to right
RECURSIVE finditer(_, _)
finditer(text, from) ==
    LET i == MatchStart(text, from)
    IN  IF i = 0 THEN <<>>
        ELSE LET c == FirstColon(text, i)
                 s == SkipWs(text, c + 1)
                 e == ContentEnd(text, s)
             IN  <<[group2 |-> SubSeq(text, i + 1, c - 1),
                    group3 |-> SubSeq(text, s, e - 1)]>> \o finditer(text, e)

\* The key a matched title is stored under: the canonical name when the
\* lower-cased title contains it (tested in this order), else the title itself
StepKey(step_title) ==
    IF "Argument Breakdown" \in Range(step_title) THEN <<"Argument Breakdown">>
    ELSE IF "Question Analysis" \in Range(step_title) THEN <<"Question Analysis">>
    ELSE IF "Strategic Evaluation" \in Range(step_title) THEN <<"Strategic Evaluation">>
    ELSE IF "Final Conclusion" \in Range(step_title) THEN <<"Final Conclusion">>
    ELSE step_title

\* self.steps[key] = value
Put(steps, key, value) ==
    [k \in DOMAIN steps \cup {key} |-> IF k = key THEN value ELSE steps[k]]

\* the loop over the matches: a later match of the same key overwrites
RECURSIVE StoreMatches(_, _)
StoreMatches(steps, matches) ==
    IF matches = <<>> THEN steps
    ELSE StoreMatches(
            Put(steps, StepKey(Strip(Head(matches).group2)), Strip(Head(matches).group3)),
            Tail(matches))

\* "step in self.steps" for a canonical name
HasStep(steps, step) == <<step>> \in DOMAIN steps

----------------------------------------------------------------------------
(* ReasoningMap *)

EmptySteps == [k \in {} |-> <<>>]

EmptyGraph == [nodes |-> {}, edges |-> {}]

\* ReasoningMap.__init__
ReasoningMap(raw_llm_text, lsat_problem) ==
    [raw_text |-> raw_llm_text,
     problem |-> lsat_problem,
     graph |-> EmptyGraph,
     steps |-> EmptySteps,
     is_correct |-> FALSE,
     llm_answer |-> None]

\* ReasoningMap.parse_reasoning
parse_reasoning(self) ==
    [self EXCEPT !.steps = StoreMatches(self.steps, finditer(self.raw_text, 1))]

\* what parse_reasoning prints once the matches are stored
parse_prints(self) ==
    IF DOMAIN parse_reasoning(self).steps = {} THEN "--- PARSING FAILED ---" ELSE ""

\* re.search(r"\b\(?([A-E])\)?[:\.]?\b", conclusion_text): the position of the
\* first capital letter A-E standing alone (0: no match)
SearchLetter(conclusion_text) ==
    LET ms == {i \in 1 .. Len(conclusion_text) : conclusion_text[i] \in Letters}
    IN  IF ms = {} THEN 0 ELSE Least(ms)

\* analyze_correctness with the comparison against the label left out
analyze_correctness_unchecked(self) ==
    LET conclusion_text ==
            IF HasStep(self.steps, "Final Conclusion")
            THEN self.steps[<<"Final Conclusion">>] ELSE <<>>
        match == SearchLetter(conclusion_text)
    IN  IF conclusion_text = <<>> THEN self
        ELSE IF match = 0 THEN self
        ELSE [self EXCEPT !.llm_answer = LetterIndex(conclusion_text[match]),
                          !.is_correct = TRUE]

\* ReasoningMap.analyze_correctness
analyze_correctness(self) ==
    LET conclusion_text ==
            IF HasStep(self.steps, "Final Conclusion")
            THEN self.steps[<<"Final Conclusion">>] ELSE <<>>
        match == SearchLetter(conclusion_text)
        answer == LetterIndex(conclusion_text[match])
    IN  IF conclusion_text = <<>> THEN self
        ELSE IF match = 0 THEN self
        ELSE [self EXCEPT !.llm_answer = answer,
                          !.is_correct = IF answer = self.problem.label THEN TRUE ELSE @]

\* what analyze_correctness prints
analyze_prints(self) ==
    LET conclusion_text ==
            IF HasStep(self.steps, "Final Conclusion")
            THEN self.steps[<<"Final Conclusion">>] ELSE <<>>
    IN  IF conclusion_text = <<>> THEN "Warning: Could not find 'Final Conclusion' step."
        ELSE IF SearchLetter(conclusion_text) = 0
             THEN "Warning: Could not find answer letter (A-E) in conclusion"
        ELSE ""

\* graph.add_edge(u, v) when both nodes are in the graph
EdgeIf(nodes, u, v) == IF u \in nodes /\ v \in nodes THEN {<<u, v>>} ELSE {}

\* ReasoningMap.build_graph
build_graph(self) ==
    IF DOMAIN self.steps = {} THEN self
    ELSE LET nodes == self.graph.nodes \cup {"Context"}
                        \cup {std_steps[i] : i \in {j \in 1 .. 4 : HasStep(self.steps, std_steps[j])}}
             edges == self.graph.edges
                        \cup (IF "Argument Breakdown" \in nodes
                              THEN {<<"Context", "Argument Breakdown">>} ELSE {})
                        \cup EdgeIf(nodes, "Argument Breakdown", "Question Analysis")
                        \cup EdgeIf(nodes, "Question Analysis", "Strategic Evaluation")
                        \cup EdgeIf(nodes, "Strategic Evaluation", "Final Conclusion")
         IN  [self EXCEPT !.graph = [nodes |-> nodes, edges |-> edges]]

\* what build_graph prints
build_prints(self) ==
    IF DOMAIN self.steps = {} THEN "Cannot build graph, no steps were parsed." ELSE ""

----------------------------------------------------------------------------
(* The responses a session is built from *)

RECURSIVE SeqsUpTo(_, _)
SeqsUpTo(S, n) ==
    IF n = 0 THEN {<<>>}
    ELSE LET shorter == SeqsUpTo(S, n - 1)
         IN  shorter \cup {Append(s, x) : s \in {t \in shorter : Len(t) = n - 1}, x \in S}

\* what follows the "Argument Breakdown" and "Question Analysis" headings
StageBodies == {<<>>, <<"W">>}

\* what follows the "Strategic Evaluation" heading: it may name a choice
EvaluationBodies == StageBodies \cup {<<"C">>}

\* what follows the "Final Conclusion" heading
ConclusionBodies == SeqsUpTo({"ANS", "A", "B"}, MaxBody)

Bodies(i) == IF i = 4 THEN ConclusionBodies ELSE IF i = 3 THEN EvaluationBodies ELSE StageBodies

\* a stage heading starts a line or follows the previous text on its line
Separators == {<<"NL">>, <<>>}

Sections(i) ==
    {<<>>} \cup {sep \o <<"NUM", std_steps[i], "COLON">> \o body :
                    sep \in Separators, body \in Bodies(i)}

RawTexts ==
    {s1 \o s2 \o s3 \o s4 :
        s1 \in Sections(1), s2 \in Sections(2), s3 \in Sections(3), s4 \in Sections(4)}

----------------------------------------------------------------------------
(* The session specification: one ReasoningMap, its methods in any order *)

NoMap == [raw_text |-> <<>>, problem |-> [label |-> 0], graph |-> EmptyGraph,
          steps |-> EmptySteps, is_correct |-> FALSE, llm_answer |-> None,
          none |-> TRUE]

\* fetch_lsat_data not called: nothing printed
NoneShown == [samples |-> <<>>, error |-> FALSE]

BatchIdle ==
    /\ dataset = [ok |-> FALSE, rows |-> <<>>]
    /\ shown = NoneShown
    /\ mainpc = "idle"
    /\ lsat_data = <<>>
    /\ api_key = FALSE
    /\ pc = <<>>
    /\ outcome = <<>>
    /\ maps = <<>>
    /\ results = <<>>
    /\ render = <<>>
    /\ response = <<>>
    /\ finished = <<>>
    /\ csv = <<>>
    /\ report = <<>>

SessionInit ==
    /\ \E raw_llm_text \in RawTexts, label \in Labels :
          map = ReasoningMap(raw_llm_text, [label |-> label])
    /\ last = "__init__"
    /\ printed = ""
    /\ BatchIdle

ParseReasoning ==
    /\ map' = parse_reasoning(map)
    /\ last' = "parse_reasoning"
    /\ printed' = parse_prints(map)
    /\ UNCHANGED batchVars

AnalyzeCorrectness ==
    /\ map' = analyze_correctness(map)
    /\ last' = "analyze_correctness"
    /\ printed' = analyze_prints(map)
    /\ UNCHANGED batchVars

BuildGraph ==
    /\ map' = build_graph(map)
    /\ last' = "build_graph"
    /\ printed' = build_prints(map)
    /\ UNCHANGED batchVars

SessionNext == ParseReasoning \/ AnalyzeCorrectness \/ BuildGraph

SessionSpec == SessionInit /\ [][SessionNext]_vars

----------------------------------------------------------------------------
(* The text-generation exchange *)

\* the responses of a successful exchange
Responses ==
    { <<"NUM", "Argument Breakdown", "COLON", "W", "NL",
        "NUM", "Question Analysis", "COLON", "W", "NL",
        "NUM", "Strategic Evaluation", "COLON", "W", "NL",
        "NUM", "Final Conclusion", "COLON", "ANS", "B">>,
      <<"NUM", "Argument Breakdown", "COLON", "W", "NL",
        "NUM", "Question Analysis", "COLON", "W">>,
      <<"NUM", "Argument Breakdown", "COLON", "Error", "W", "NL",
        "NUM", "Final Conclusion", "COLON", "ANS", "A">>,
      <<"W">> }

\* str(e) of an exception of the request
ExceptionMessages == {<<"W">>, <<"Error", "W">>}

\* what session.post and the response can do
Outcomes ==
    {[kind |-> "ok", text |-> t] : t \in Responses}
    \cup {[kind |-> "invalid payload", text |-> <<"W">>],
          [kind |-> "status", text |-> <<"W">>],
          [kind |-> "timeout", text |-> <<>>]}
    \cup {[kind |-> "exception", text |-> m] : m \in ExceptionMessages}

\* get_llm_reasoning: the string it returns
get_llm_reasoning(o) ==
    CASE o.kind = "ok" -> o.text
      [] o.kind = "invalid payload" -> <<"Error", "COLON", "W">> \o o.text
      [] o.kind = "status" -> <<"Error", "NUM", "COLON">> \o o.text
      [] o.kind = "timeout" -> <<"Error", "COLON", "W">>
      [] o.kind = "exception" -> <<"W", "COLON">> \o o.text

----------------------------------------------------------------------------
(* process_problem and main *)

Tasks == 1 .. NumProblems

NoResult == [id_string |-> 0]

NoFile == <<>>

NoReport == [ran |-> FALSE]

\* ReasoningMap.visualize: an empty graph is not drawn; otherwise the figure
\* is drawn and saved, and an exception of the rendering sink leaves the method
visualize(self, sink_ok) ==
    IF self.graph.nodes = {} THEN "Graph is empty, cannot visualize."
    ELSE IF sink_ok THEN "Map saved" ELSE "raised"

\* the record process_problem returns when "Error" is in raw_text
ErrorResult(problem, raw_text) ==
    [id_string |-> problem.id_string,
     was_llm_correct |-> FALSE,
     llm_answer |-> "Error",
     correct_answer |-> IndexLetter(problem.label),
     error_message |-> raw_text,
     map_filename |-> "N/A"]

\* the record process_problem returns after visualize
MapResult(problem, m) ==
    [id_string |-> problem.id_string,
     was_llm_correct |-> m.is_correct,
     llm_answer |-> IF m.llm_answer # None THEN IndexLetter(m.llm_answer) ELSE "N/A",
     correct_answer |-> IndexLetter(problem.label),
     error_message |-> <<"N/A">>,
     map_filename |-> "map.png"]

\* parse_reasoning, analyze_correctness, build_graph on a new ReasoningMap
Pipeline(raw_text, problem) ==
    build_graph(analyze_correctness(parse_reasoning(ReasoningMap(raw_text, problem))))

\* the steps of every ReasoningMap built so far, as one dictionary
SharedSteps ==
    LET keys == UNION {DOMAIN maps[j].steps : j \in DOMAIN maps}
    IN  [k \in keys |-> maps[CHOOSE j \in DOMAIN maps : k \in DOMAIN maps[j].steps].steps[k]]

\* the map of a task when steps is one dictionary shared by every ReasoningMap
TaskMapSharedSteps(i, raw_text) ==
    build_graph(analyze_correctness(parse_reasoning(
        [ReasoningMap(raw_text, lsat_data[i]) EXCEPT !.steps = SharedSteps])))

\* the ReasoningMap of task i: a local of its process_problem call, built from
\* the text the task received and the problem the task was given
TaskMap(i, raw_text) == Pipeline(raw_text, lsat_data[i])

\* the labels of the problems of a batch: the answer of one response (A), of
\* another (B), and of none (E)
BatchLabels == {0, 1, 4}

\* main holding the loaded problems ("Loaded n problems."), before it reads
\* LLM_KEY; every problem has its id and a label
Init ==
    /\ map = NoMap
    /\ last = "__init__"
    /\ printed = ""
    /\ mainpc = "loaded"
    /\ lsat_data \in [Tasks -> {[id_string |-> i, label |-> l] : i \in Tasks, l \in BatchLabels}]
    /\ \A i \in Tasks : lsat_data[i].id_string = i
    /\ dataset = [ok |-> TRUE, rows |-> lsat_data]
    /\ shown = [samples |-> lsat_data, error |-> FALSE]
    /\ api_key \in BOOLEAN
    /\ pc = [i \in Tasks |-> "none"]
    /\ outcome = [i \in Tasks |-> "none"]
    /\ maps = [i \in Tasks |-> NoMap]
    /\ results = [i \in Tasks |-> NoResult]
    /\ render = [i \in Tasks |-> "not called"]
    /\ response = [i \in Tasks |-> <<>>]
    /\ finished = <<>>
    /\ csv = NoFile
    /\ report = NoReport

\* main: LLM_KEY is missing
MainNoKey ==
    /\ mainpc = "loaded"
    /\ ~api_key
    /\ mainpc' = "exited"
    /\ UNCHANGED <<dataset, shown, lsat_data, api_key, pc, outcome, maps, results, render, response, finished, csv, report>>
    /\ UNCHANGED sessionVars

\* main: one process_problem task per problem, handed to asyncio.gather
MainGather ==
    /\ mainpc = "loaded"
    /\ api_key
    /\ mainpc' = "gathering"
    /\ pc' = [i \in Tasks |-> "ready"]
    /\ UNCHANGED <<dataset, shown, lsat_data, api_key, outcome, maps, results, render, response, finished, csv, report>>
    /\ UNCHANGED sessionVars

\* process_problem up to its suspension in session.post; the event loop
\* starts the tasks in the order gather created them
TaskStart(i) ==
    /\ mainpc = "gathering"
    /\ pc[i] = "ready"
    /\ \A j \in 1 .. (i - 1) : pc[j] # "ready"
    /\ pc' = [pc EXCEPT ![i] = "awaiting"]
    /\ UNCHANGED <<dataset, shown, mainpc, lsat_data, api_key, outcome, maps, results, render, response, finished, csv, report>>
    /\ UNCHANGED sessionVars

\* process_problem from the end of the exchange to its return or raise; no
\* exchange ends before every task has run to its first suspension
TaskResume(i) ==
    /\ mainpc = "gathering"
    /\ pc[i] = "awaiting"
    /\ \A j \in Tasks : pc[j] # "ready"
    /\ \E o \in Outcomes, sink_ok \in BOOLEAN :
          LET raw_text == get_llm_reasoning(o)
              m == TaskMap(i, raw_text)
          IN  /\ outcome' = [outcome EXCEPT ![i] = o.kind]
              /\ response' = [response EXCEPT ![i] = raw_text]
              /\ IF "Error" \in Range(raw_text)
                 THEN /\ results' = [results EXCEPT ![i] = ErrorResult(lsat_data[i], raw_text)]
                      /\ pc' = [pc EXCEPT ![i] = "done"]
                      /\ UNCHANGED <<maps, render>>
                 ELSE /\ maps' = [maps EXCEPT ![i] = m]
                      /\ render' = [render EXCEPT ![i] = visualize(m, sink_ok)]
                      /\ IF visualize(m, sink_ok) = "raised"
                         THEN /\ pc' = [pc EXCEPT ![i] = "raised"]
                              /\ UNCHANGED results
                         ELSE /\ pc' = [pc EXCEPT ![i] = "done"]
                              /\ results' = [results EXCEPT ![i] = MapResult(lsat_data[i], m)]
    /\ finished' = Append(finished, i)
    /\ UNCHANGED <<dataset, shown, mainpc, lsat_data, api_key, csv, report>>
    /\ UNCHANGED sessionVars

\* main: gather returns every task's record; results.csv is written
MainSave ==
    /\ mainpc = "gathering"
    /\ \A i \in Tasks : pc[i] = "done"
    /\ csv' = [i \in Tasks |-> results[i]]
    /\ mainpc' = "saved"
    /\ UNCHANGED <<dataset, shown, lsat_data, api_key, pc, outcome, maps, results, render, response, finished, report>>
    /\ UNCHANGED sessionVars

\* main: gather re-raises the exception of a task; it leaves main and
\* asyncio.run cancels the tasks still running
MainRaise ==
    /\ mainpc = "gathering"
    /\ \E i \in Tasks : pc[i] = "raised"
    /\ mainpc' = "aborted"
    /\ pc' = [i \in Tasks |-> IF pc[i] = "awaiting" THEN "cancelled" ELSE pc[i]]
    /\ UNCHANGED <<dataset, shown, lsat_data, api_key, outcome, maps, results, render, response, finished, csv, report>>
    /\ UNCHANGED sessionVars

\* pd.read_csv: "N/A" is read back as a missing value
read_csv(file) ==
    [i \in DOMAIN file |->
        [file[i] EXCEPT !.llm_answer = IF @ = "N/A" THEN "NaN" ELSE @]]

\* analyze_results: the counts it prints
analyze_results(file) ==
    LET df == read_csv(file)
        api_errors == {i \in DOMAIN df : df[i].llm_answer = "API Error"}
        clean_df == {i \in DOMAIN df : df[i].llm_answer # "API Error"}
        correct == {i \in clean_df : df[i].was_llm_correct}
    IN  IF clean_df = {}
        THEN \* "No successful API responses to analyze."
             [ran |-> TRUE,
              total_problems |-> Len(df),
              api_error_count |-> Cardinality(api_errors),
              successful |-> None,
              correct_count |-> None,
              incorrect_count |-> None]
        ELSE [ran |-> TRUE,
              total_problems |-> Len(df),
              api_error_count |-> Cardinality(api_errors),
              successful |-> Cardinality(clean_df),
              correct_count |-> Cardinality(correct),
              incorrect_count |-> Cardinality(clean_df) - Cardinality(correct)]

\* analyze_results run on the results.csv that main wrote
AnalyzeResults ==
    /\ csv # NoFile
    /\ report' = analyze_results(csv)
    /\ UNCHANGED <<dataset, shown, mainpc, lsat_data, api_key, pc, outcome, maps, results, render, response, finished, csv>>
    /\ UNCHANGED sessionVars

Next ==
    \/ MainNoKey
    \/ MainGather
    \/ \E i \in Tasks : TaskStart(i)
    \/ \E i \in Tasks : TaskResume(i)
    \/ MainSave
    \/ MainRaise
    \/ AnalyzeResults

Spec == Init /\ [][Next]_vars

-----------------------------------------------------------------------------
(* main from its first line: the fetch of the problems *)

\* the train splits load_dataset can find: it raises (ok = FALSE), or yields
\* rows that each carry an id and a label
Datasets ==
    {[ok |-> o, rows |-> [i \in 1 .. n |-> [id_string |-> i, label |-> f[i]]]] :
        o \in BOOLEAN, n \in 0 .. MaxRows, f \in [1 .. MaxRows -> BatchLabels]}

\* what fetch_lsat_data(num_samples) prints: the samples dataset[0], dataset[1],
\* ... it reaches, and the error text when load_dataset or dataset[i] raises
fetch_prints(ds, num_samples) ==
    IF ~ds.ok
    THEN [samples |-> <<>>, error |-> TRUE]
    ELSE IF Len(ds.rows) < num_samples
         THEN [samples |-> ds.rows, error |-> TRUE]
         ELSE [samples |-> SubSeq(ds.rows, 1, num_samples), error |-> FALSE]

\* what fetch_lsat_data(num_samples) returns: the function has no return
\* statement, in the try block or in the handler
fetch_lsat_data(ds, num_samples) == None

\* "not lsat_data"
not_lsat_data(v) == v = None \/ v = <<>>

MainInit ==
    /\ map = NoMap
    /\ last = "__init__"
    /\ printed = ""
    /\ dataset \in Datasets
    /\ shown = NoneShown
    /\ mainpc = "start"
    /\ lsat_data = <<>>
    /\ api_key \in BOOLEAN
    /\ pc = <<>>
    /\ outcome = <<>>
    /\ maps = <<>>
    /\ results = <<>>
    /\ render = <<>>
    /\ response = <<>>
    /\ finished = <<>>
    /\ csv = NoFile
    /\ report = NoReport

\* main up to "Loaded n problems.": the fetch and the test of what it returned
MainFetch ==
    /\ mainpc = "start"
    /\ shown' = fetch_prints(dataset, NumProblems)
    /\ LET data == fetch_lsat_data(dataset, NumProblems)
       IN  /\ lsat_data' = data
           /\ IF not_lsat_data(data)
              THEN /\ mainpc' = "nodata"
                   /\ UNCHANGED <<pc, outcome, maps, results, render, response>>
              ELSE /\ mainpc' = "loaded"
                   /\ pc' = [i \in DOMAIN data |-> "none"]
                   /\ outcome' = [i \in DOMAIN data |-> "none"]
                   /\ maps' = [i \in DOMAIN data |-> NoMap]
                   /\ results' = [i \in DOMAIN data |-> NoResult]
                   /\ render' = [i \in DOMAIN data |-> "not called"]
                   /\ response' = [i \in DOMAIN data |-> <<>>]
    /\ UNCHANGED <<dataset, api_key, finished, csv, report>>
    /\ UNCHANGED sessionVars

MainNext == MainFetch

MainSpec == MainInit /\ [][MainNext]_vars


----------------------------------------------------------------------------
(* Properties *)

\* the stage map is the one parse_reasoning yields for the raw text
Parsed == map.steps = StoreMatches(EmptySteps, finditer(map.raw_text, 1))

\* the node that marks canonical stage i as missing
MissingNode(i) ==
    CASE i = 1 -> "missing-Argument Breakdown"
      [] i = 2 -> "missing-Question Analysis"
      [] i = 3 -> "missing-Strategic Evaluation"
      [] i = 4 -> "missing-Final Conclusion"

\* the node of canonical stage i in the chain: the stage, or its missing node
ChainNode(i) ==
    IF HasStep(map.steps, std_steps[i]) THEN std_steps[i] ELSE MissingNode(i)

ChainPrev(i) == IF i = 1 THEN "Context" ELSE ChainNode(i - 1)

\* C1: after build_graph the graph has 1 + k nodes and k edges, k = 4 the
\* number of canonical stages, whichever stages are in the stage map.
C1_NodeAndEdgeCount ==
    (last = "build_graph" /\ Parsed) =>
        /\ Cardinality(map.graph.nodes) = 1 + Len(std_steps)
        /\ Cardinality(map.graph.edges) = Len(std_steps)

\* C2 (for a stage map that is not empty; C1 covers the empty one): after
\* build_graph the graph is one chain from "Context" through the canonical
\* stages in order, a stage absent from the stage map being a distinct missing
\* node at its place, so every stage node has an incoming edge.
C2_UnbrokenChain ==
    (last = "build_graph" /\ Parsed /\ DOMAIN map.steps # {}) =>
        /\ map.graph.nodes = {"Context"} \cup {ChainNode(i) : i \in 1 .. 4}
        /\ map.graph.edges = {<<ChainPrev(i), ChainNode(i)>> : i \in 1 .. 4}
        /\ \A n \in map.graph.nodes \ {"Context"} :
              \E e \in map.graph.edges : e[2] = n

\* C3: in every state of a session the correctness flag is true iff an answer
\* index has been extracted and equals the ground-truth label (so it is false
\* until computed and false while the answer is null).
C3_CorrectnessFlag ==
    map.is_correct <=> (map.llm_answer # None /\ map.llm_answer = map.problem.label)

\* C3 witness: analyze_correctness has extracted the answer and it is the label
C3_Witness ==
    /\ last = "analyze_correctness"
    /\ map.llm_answer # None
    /\ map.llm_answer = map.problem.label
    /\ map.is_correct

Failed(i) == outcome[i] \in {"invalid payload", "status", "timeout", "exception"}

\* C4: every failure of the exchange is short-circuited (no ReasoningMap is
\* built from its text) and recorded as a generation failure, which the report
\* counts as an API error and not as an incorrect answer; a successful
\* response is always parsed and never recorded as a generation failure.
C4_FailuresShortCircuited ==
    /\ \A i \in DOMAIN pc :
          pc[i] \in {"done", "raised"} =>
             /\ Failed(i) => (maps[i] = NoMap /\ results[i].llm_answer = "Error")
             /\ outcome[i] = "ok" =>
                   (maps[i] # NoMap /\ (pc[i] = "done" => results[i].llm_answer # "Error"))
    /\ report.ran =>
          /\ report.api_error_count = Cardinality({i \in DOMAIN pc : Failed(i)})
          /\ report.incorrect_count =
                Cardinality({i \in DOMAIN pc : outcome[i] = "ok" /\ ~results[i].was_llm_correct})

TextLetters(text) == {i \in 1 .. Len(text) : text[i] \in Letters}

\* C5: when the stage map has no "Final Conclusion" stage and the raw text
\* holds an answer letter, analyze_correctness extracts a letter of the raw
\* text instead of no answer.
C5_FallbackToRawText ==
    (/\ last = "analyze_correctness"
     /\ Parsed
     /\ ~HasStep(map.steps, "Final Conclusion")
     /\ TextLetters(map.raw_text) # {}) =>
        map.llm_answer \in {LetterIndex(map.raw_text[i]) : i \in TextLetters(map.raw_text)}

\* the positions of an "answer is" phrase that a letter A-E follows
Phrases(text) ==
    {i \in 1 .. Len(text) - 1 : text[i] = "ANS" /\ text[i + 1] \in Letters}

Greatest(S) == CHOOSE x \in S : \A y \in S : y <= x

\* C6 (the search text being the "Final Conclusion" stage): when it holds an
\* "answer is" phrase followed by a letter X, the extracted answer is the X of
\* the first such phrase, whatever other letters stand before or after it.
C6_PhraseBeatsLetters ==
    (/\ last = "analyze_correctness"
     /\ Parsed
     /\ HasStep(map.steps, "Final Conclusion")
     /\ Phrases(map.steps[<<"Final Conclusion">>]) # {}) =>
        LET text == map.steps[<<"Final Conclusion">>]
        IN  map.llm_answer = LetterIndex(text[Least(Phrases(text)) + 1])

\* C7 (the search text being the "Final Conclusion" stage): when it holds no
\* "answer is" phrase but letters A-E standing alone, the extracted answer is
\* the index of the last of them.
C7_LastLetterFallback ==
    (/\ last = "analyze_correctness"
     /\ Parsed
     /\ HasStep(map.steps, "Final Conclusion")
     /\ Phrases(map.steps[<<"Final Conclusion">>]) = {}
     /\ TextLetters(map.steps[<<"Final Conclusion">>]) # {}) =>
        LET text == map.steps[<<"Final Conclusion">>]
        IN  map.llm_answer = LetterIndex(text[Greatest(TextLetters(text))])

\* "1. Argument Breakdown: Premise X. 2. Question Analysis: Type Flaw.
\*  4. Final Conclusion: The answer is (A)."
Scenario ==
    <<"NUM", "Argument Breakdown", "COLON", "W",
      "NUM", "Question Analysis", "COLON", "W",
      "NUM", "Final Conclusion", "COLON", "ANS", "A">>

\* C8: for the one-line text with the headings Argument Breakdown, Question
\* Analysis and Final Conclusion, the stage map has exactly these 3 entries,
\* the graph has 5 nodes and 4 edges with one missing node for Strategic
\* Evaluation, the answer is 0 and correctness is true iff the label is 0.
C8_OneLineScenario ==
    (map.raw_text = Scenario /\ Parsed) =>
        /\ DOMAIN map.steps =
              {<<"Argument Breakdown">>, <<"Question Analysis">>, <<"Final Conclusion">>}
        /\ last = "build_graph" =>
              /\ Cardinality(map.graph.nodes) = 5
              /\ Cardinality(map.graph.edges) = 4
              /\ MissingNode(3) \in map.graph.nodes
              /\ "Strategic Evaluation" \notin map.graph.nodes
        /\ last = "analyze_correctness" =>
              /\ map.llm_answer = 0
              /\ map.is_correct <=> (map.problem.label = 0)

\* the text ends with the heading of canonical stage i and nothing after it
HeadingAtEnd(text, i) ==
    /\ Len(text) >= 3
    /\ SubSeq(text, Len(text) - 2, Len(text)) = <<"NUM", std_steps[i], "COLON">>

\* C9: a canonical stage whose heading ends the text is in the stage map with
\* empty content, build_graph gives it its node, and analyze_correctness does
\* not report a "Final Conclusion" that is present as not found.
C9_EmptyStageIsPresent ==
    \A i \in 1 .. 4 :
        (HeadingAtEnd(map.raw_text, i) /\ Parsed) =>
            /\ HasStep(map.steps, std_steps[i])
            /\ map.steps[<<std_steps[i]>>] = <<>>
            /\ last = "build_graph" => std_steps[i] \in map.graph.nodes
            /\ (last = "analyze_correctness" /\ i = 4) =>
                  printed # "Warning: Could not find 'Final Conclusion' step."

\* C10: once the rendering of one problem has raised, the batch is not
\* aborted and no task is cancelled, and when main has ended results.csv
\* holds the record of every other problem.
C10_RenderFailureContained ==
    (\E i \in DOMAIN render : render[i] = "raised") =>
        /\ mainpc # "aborted"
        /\ \A j \in DOMAIN pc : pc[j] # "cancelled"
        /\ mainpc # "gathering" =>
              /\ csv # NoFile
              /\ \A j \in DOMAIN render :
                    render[j] # "raised" => (pc[j] = "done" /\ csv[j] = results[j])

\* the record that processing problem i alone yields for the text the
\* exchange returned for it
SequentialRecord(i) ==
    IF "Error" \in Range(response[i])
    THEN ErrorResult(lsat_data[i], response[i])
    ELSE MapResult(lsat_data[i], Pipeline(response[i], lsat_data[i]))

C12_FetchReturnsProblems ==
    (/\ mainpc # "start"
     /\ dataset.ok
     /\ Len(dataset.rows) >= NumProblems
     /\ api_key)
    => /\ mainpc = "loaded"
       /\ lsat_data = SubSeq(dataset.rows, 1, NumProblems)

============================================================================
